---- MODULE Spec2Model ----
(***************************************************************************)
(* A model of scripts/statistic/download_stats.py: one run of main(), from *)
(* the HTTP fetch to the last line of the report.                          *)
(*                                                                         *)
(* Python values are tagged records: JStr("v1.0"), JInt(3), JNull (None).  *)
(* A JSON object is a record whose DOMAIN holds exactly the keys present,  *)
(* so that dict.get(key, default) can tell a missing key from a null one.  *)
(* Text is kept as TLA+ strings and taken apart with Len, SubSeq and \o.   *)
(***************************************************************************)
EXTENDS Integers, Sequences, FiniteSets, TLC

\* The longest release list the fetch returns in the model.
MaxReleases == 4

----------------------------------------------------------------------------
\* Python values

JStr(s) == [t |-> "str", v |-> s]
JInt(n) == [t |-> "int", v |-> n]
JNull == [t |-> "null"]

\* dict.get(key, default): the default only when the key is missing.
Get(d, key, default) == IF key \in DOMAIN d THEN d[key] ELSE default

----------------------------------------------------------------------------
\* Characters and strings

Ch(s, i) == SubSeq(s, i, i)

Upper == "ABCDEFGHIJKLMNOPQRSTUVWXYZ"
LowerCase == "abcdefghijklmnopqrstuvwxyz"
DigitChars == "0123456789"

\* The characters of the model's texts in code-point order (ASCII).
CharOrder == " +,-./" \o DigitChars \o ":" \o Upper \o LowerCase

IndexIn(alphabet, c) ==
    IF \E k \in 1..Len(alphabet) : Ch(alphabet, k) = c
    THEN CHOOSE k \in 1..Len(alphabet) : Ch(alphabet, k) = c
    ELSE 0

\* ord(c), up to an order-preserving renumbering.
Ord(c) == IndexIn(CharOrder, c)

IsDigit(c) == IndexIn(DigitChars, c) > 0

LowerCh(c) == IF IndexIn(Upper, c) > 0 THEN Ch(LowerCase, IndexIn(Upper, c)) ELSE c

RECURSIVE StrLower(_)
\* str.lower()
StrLower(s) == IF s = "" THEN "" ELSE LowerCh(Head(s)) \o StrLower(Tail(s))

\* sub in s
StrContains(sub, s) ==
    \E k \in 1..(Len(s) - Len(sub) + 1) : SubSeq(s, k, k + Len(sub) - 1) = sub

RECURSIVE StrReplace(_, _, _)
\* s.replace(old, new) for a one-character old: every occurrence is replaced.
StrReplace(s, old, new) ==
    IF s = "" THEN ""
    ELSE (IF Head(s) = old THEN new ELSE Head(s)) \o StrReplace(Tail(s), old, new)

RECURSIVE StrLess(_, _)
\* a < b on str: lexicographic by code point, a proper prefix is smaller.
StrLess(a, b) ==
    IF b = "" THEN FALSE
    ELSE IF a = "" THEN TRUE
    ELSE IF Head(a) = Head(b) THEN StrLess(Tail(a), Tail(b))
    ELSE Ord(Head(a)) < Ord(Head(b))

RECURSIVE Digits(_)
\* str(n) for n >= 0
Digits(n) == IF n < 10 THEN Ch(DigitChars, n + 1)
             ELSE Digits(n \div 10) \o Ch(DigitChars, (n % 10) + 1)

RECURSIVE ZeroPad(_, _)
\* n printed in at least w digits (%02d, %04d)
ZeroPad(n, w) == IF Len(Digits(n)) >= w THEN Digits(n) ELSE "0" \o ZeroPad(n, w - 1)

RECURSIVE format_number(_)
\* f"{n:,}"
format_number(n) ==
    IF n < 1000 THEN Digits(n)
    ELSE format_number(n \div 1000) \o "," \o ZeroPad(n % 1000, 3)

----------------------------------------------------------------------------
\* datetime.fromisoformat and strftime, as far as format_date uses them.
\* The grammar is YYYY-MM-DD[*HH[:MM[:SS[.fff[fff]]]][+HH:MM[:SS]]], where *
\* is any one character; field values are range-checked as datetime() does.

RECURSIVE AllDigits(_)
AllDigits(s) == s = "" \/ (IsDigit(Head(s)) /\ AllDigits(Tail(s)))

RECURSIVE ToInt(_)
\* int(s) for a string of digits
ToInt(s) == IF s = "" THEN 0
            ELSE 10 * ToInt(SubSeq(s, 1, Len(s) - 1)) + (IndexIn(DigitChars, Ch(s, Len(s))) - 1)

IsLeap(y) == (y % 4 = 0 /\ y % 100 # 0) \/ y % 400 = 0

DaysInMonth(y, m) ==
    IF m = 2 THEN (IF IsLeap(y) THEN 29 ELSE 28)
    ELSE IF m \in {4, 6, 9, 11} THEN 30 ELSE 31

\* The shape YYYY-MM-DD, digits and dashes only.
DateShape(s) ==
    /\ Len(s) = 10
    /\ AllDigits(SubSeq(s, 1, 4)) /\ Ch(s, 5) = "-"
    /\ AllDigits(SubSeq(s, 6, 7)) /\ Ch(s, 8) = "-"
    /\ AllDigits(SubSeq(s, 9, 10))

\* The shape HH[:MM[:SS[.fff[fff]]]].
HmsShape(s) ==
    /\ Len(s) \in {2, 5, 8, 12, 15}
    /\ AllDigits(SubSeq(s, 1, 2))
    /\ Len(s) >= 5 => (Ch(s, 3) = ":" /\ AllDigits(SubSeq(s, 4, 5)))
    /\ Len(s) >= 8 => (Ch(s, 6) = ":" /\ AllDigits(SubSeq(s, 7, 8)))
    /\ Len(s) >= 12 => (Ch(s, 9) = "." /\ AllDigits(SubSeq(s, 10, Len(s))))

\* The k-th two-digit field of an HH:MM:SS text, 0 when it is left out.
HmsField(s, k) == IF Len(s) >= 3 * k - 1 THEN ToInt(SubSeq(s, 3 * k - 2, 3 * k - 1)) ELSE 0

\* str.find(c) + 1: the position of the first c, 0 when there is none.
FindCh(s, c) ==
    IF \E k \in 1..Len(s) : Ch(s, k) = c
    THEN CHOOSE k \in 1..Len(s) : Ch(s, k) = c /\ \A j \in 1..(k - 1) : Ch(s, j) # c
    ELSE 0

\* Where the UTC offset starts in the time text: the first "-", else the first "+".
TzPos(tstr) == IF FindCh(tstr, "-") > 0 THEN FindCh(tstr, "-") ELSE FindCh(tstr, "+")

ParseFailed == [ok |-> FALSE, year |-> 0, month |-> 0, day |-> 0, hour |-> 0, minute |-> 0]

\* datetime.fromisoformat(s): ok = FALSE stands for the ValueError it raises.
fromisoformat(s) ==
    IF Len(s) < 10 \/ ~DateShape(SubSeq(s, 1, 10)) THEN ParseFailed
    ELSE
      LET y == ToInt(SubSeq(s, 1, 4))
          m == ToInt(SubSeq(s, 6, 7))
          d == ToInt(SubSeq(s, 9, 10))
          tstr == SubSeq(s, 12, Len(s))
          tz == TzPos(tstr)
          timestr == IF tz > 0 THEN SubSeq(tstr, 1, tz - 1) ELSE tstr
          tzstr == IF tz > 0 THEN SubSeq(tstr, tz + 1, Len(tstr)) ELSE ""
          dateOk == y >= 1 /\ m \in 1..12 /\ d >= 1 /\ d <= DaysInMonth(y, m)
          timeOk == /\ HmsShape(timestr)
                    /\ HmsField(timestr, 1) <= 23
                    /\ HmsField(timestr, 2) <= 59
                    /\ HmsField(timestr, 3) <= 59
          tzOk == tz > 0 =>
                    /\ Len(tzstr) \in {5, 8}
                    /\ HmsShape(tzstr)
                    /\ 60 * HmsField(tzstr, 1) + HmsField(tzstr, 2) < 1440
      IN  IF ~dateOk THEN ParseFailed
          ELSE IF Len(s) = 10
            THEN [ok |-> TRUE, year |-> y, month |-> m, day |-> d, hour |-> 0, minute |-> 0]
          ELSE IF timeOk /\ tzOk
            THEN [ok |-> TRUE, year |-> y, month |-> m, day |-> d,
                  hour |-> HmsField(timestr, 1), minute |-> HmsField(timestr, 2)]
          ELSE ParseFailed

\* dt.strftime('%Y-%m-%d %H:%M'): the fields as parsed, no conversion to UTC.
strftime(dt) ==
    ZeroPad(dt.year, 4) \o "-" \o ZeroPad(dt.month, 2) \o "-" \o ZeroPad(dt.day, 2)
      \o " " \o ZeroPad(dt.hour, 2) \o ":" \o ZeroPad(dt.minute, 2)

\* The fallback replaced by a placeholder.
format_date_placeholder(date_str) ==
    IF date_str.t # "str" THEN date_str
    ELSE LET dt == fromisoformat(StrReplace(date_str.v, "Z", "+00:00"))
         IN  IF dt.ok THEN JStr(strftime(dt)) ELSE JStr("N/A")

\* format_date(date_str).  The bare except also catches the AttributeError of
\* None.replace, so None comes back as None.
format_date(date_str) ==
    IF date_str.t # "str" THEN date_str
    ELSE LET dt == fromisoformat(StrReplace(date_str.v, "Z", "+00:00"))
         IN  IF dt.ok THEN JStr(strftime(dt)) ELSE date_str

----------------------------------------------------------------------------
\* The decoded response: release samples the fetch can return.

JList(l) == [t |-> "list", v |-> l]

Asset(name, count) == [name |-> JStr(name), download_count |-> JInt(count)]

ReleaseSamples ==
    { [tag_name |-> JStr("v1.0"), published_at |-> JStr("2024-01-02T03:04:05Z"),
       assets |-> JList(<<Asset("app-win.zip", 10)>>)],
      [tag_name |-> JStr("v2.0"), published_at |-> JStr("2024-02-29T10:20:30+02:00"),
       assets |-> JList(<<Asset("app-macOS.zip", 5), Asset("App-WIN64.zip", 3)>>)],
      [tag_name |-> JStr("v10.0"), published_at |-> JStr("not-a-date"),
       assets |-> JList(<<Asset("linux.tar", 1200)>>)],
      [tag_name |-> JStr("v2.0")],
      [published_at |-> JStr("2023-02-28"),
       assets |-> JList(<<[download_count |-> JInt(10)], [name |-> JStr("MACOS.pkg")]>>)],
      [tag_name |-> JStr("v1.0"), published_at |-> JNull,
       assets |-> JList(<<Asset("darwin.dmg", 7)>>)],
      [tag_name |-> JNull, published_at |-> JStr("2024-13-01T00:00:00Z"),
       assets |-> JList(<<Asset("win.exe", 1)>>)],
      [tag_name |-> JStr("v4"), published_at |-> JStr("2024-01-02T03:04:05Z"), assets |-> JNull] }

ReleaseLists == UNION { [1..n -> ReleaseSamples] : n \in 0..MaxReleases }

----------------------------------------------------------------------------
\* The aggregation loop body

AssetsOf(release) == Get(release, "assets", JList(<<>>))
DownloadCount(asset) == Get(asset, "download_count", JInt(0))
AssetName(asset) == Get(asset, "name", JStr(""))

RECURSIVE SumSeq(_)
\* sum(xs)
SumSeq(xs) == IF xs = <<>> THEN 0 ELSE Head(xs) + SumSeq(Tail(xs))

\* The iteration raises: iterating None, adding None, or None.lower().
AggregateRaises(release) ==
    LET assets == AssetsOf(release)
    IN  \/ assets.t # "list"
        \/ \E k \in 1..Len(assets.v) : DownloadCount(assets.v[k]).t # "int"
        \/ \E k \in 1..Len(assets.v) : AssetName(assets.v[k]).t # "str"

\* sum(asset.get('download_count', 0) for asset in assets)
ReleaseTotal(assets) == SumSeq([k \in 1..Len(assets) |-> DownloadCount(assets[k]).v])

\* The name matched as it is spelled, without lower().
NameMatchesCaseSensitive(marker, asset) == StrContains(marker, AssetName(asset).v)

\* marker in a.get('name', '').lower()
NameMatches(marker, asset) == StrContains(marker, StrLower(AssetName(asset).v))

\* sum(1 for a in assets if marker in a.get('name', '').lower())
MatchCount(marker, assets) ==
    Cardinality({k \in 1..Len(assets) : NameMatches(marker, assets[k])})

\* The total overwritten instead of accumulated.
AddToTotalOverwrite(total, release_total) == release_total

\* total_downloads += release_total
AddToTotal(total, release_total) == total + release_total

\* The record appended for one release; idx is the release's position in the
\* response, kept to tell apart releases that look alike.
ReleaseStat(release, idx) ==
    LET assets == AssetsOf(release).v
    IN  [version |-> Get(release, "tag_name", JStr("N/A")),
         date |-> format_date(Get(release, "published_at", JStr("N/A"))),
         downloads |-> ReleaseTotal(assets),
         assets_count |-> Len(assets),
         win |-> MatchCount("win", assets) > 0,
         mac |-> MatchCount("macos", assets) > 0,
         idx |-> idx]

----------------------------------------------------------------------------
\* Sorting

\* a < b on two keys of one type: numbers by value, texts by code point.
PyLess(a, b) == IF a.t = "int" THEN a.v < b.v ELSE StrLess(a.v, b.v)

\* list.sort(key=..., reverse=True) and sorted(..., reverse=True), keys[k]
\* being the key of xs[k]: a stable sort, equal keys keep their order also
\* when reversed.  The element with rank p has p-1 elements before it: those
\* with a greater key, and those with an equal key that came earlier.
StableSortDesc(xs, keys) ==
    LET n == Len(xs)
        rank(k) == 1 + Cardinality({j \in (1..n) \ {k} : PyLess(keys[k], keys[j])})
                     + Cardinality({j \in 1..(k - 1) :
                                      ~PyLess(keys[k], keys[j]) /\ ~PyLess(keys[j], keys[k])})
    IN  [p \in 1..n |-> xs[CHOOSE k \in 1..n : rank(k) = p]]

\* The table sorted by the release date instead of the version.
VersionKeyDate(stat) == stat.date

\* lambda x: x['version']
VersionKey(stat) == stat.version

\* lambda x: x['downloads']
DownloadsKey(stat) == JInt(stat.downloads)

\* Comparing None with anything raises TypeError; one element is never compared.
SortRaises(stats) ==
    Len(stats) >= 2 /\ \E k \in 1..Len(stats) : VersionKey(stats[k]).t # "str"

\* Line 72 left out.
SortByVersionSkipped(stats) == stats

\* release_stats.sort(key=lambda x: x['version'], reverse=True)
SortByVersion(stats) == StableSortDesc(stats, [k \in 1..Len(stats) |-> VersionKey(stats[k])])

TopCount == 3

\* The ranking without the [:3] slice.
TopReleasesUncut(stats) ==
    StableSortDesc(stats, [k \in 1..Len(stats) |-> DownloadsKey(stats[k])])

\* sorted(release_stats, key=lambda x: x['downloads'], reverse=True)[:3]
TopReleases(stats) ==
    LET s == StableSortDesc(stats, [k \in 1..Len(stats) |-> DownloadsKey(stats[k])])
    IN  SubSeq(s, 1, IF Len(s) < TopCount THEN Len(s) ELSE TopCount)

----------------------------------------------------------------------------
\* Rendering

Platforms(stat) ==
    (IF stat.win THEN <<"Windows">> ELSE <<>>) \o (IF stat.mac THEN <<"macOS">> ELSE <<>>)

RECURSIVE Join(_, _)
\* sep.join(xs)
Join(sep, xs) ==
    IF xs = <<>> THEN ""
    ELSE IF Len(xs) = 1 THEN xs[1]
    ELSE xs[1] \o sep \o Join(sep, Tail(xs))

\* ", ".join(platforms) if platforms else "N/A"
PlatformStr(stat) == IF Platforms(stat) # <<>> THEN Join(", ", Platforms(stat)) ELSE "N/A"

\* A width such as :<12 applied to None raises TypeError.
FormatRaises(value) == value.t # "str"

TableRow(stat) ==
    [sec |-> "row", version |-> stat.version.v, date |-> stat.date.v,
     downloads |-> format_number(stat.downloads), assets_count |-> stat.assets_count,
     platforms |-> PlatformStr(stat), idx |-> stat.idx]

\* str(x) of a value printed without a width
Text(value) == IF value.t = "str" THEN value.v ELSE "None"

\* The average rounded up.
AverageRoundedUp(total, rels) ==
    IF Len(rels) # 0 THEN (total + Len(rels) - 1) \div Len(rels) ELSE 0

\* total_downloads // len(releases) if releases else 0
AveragePerRelease(total, rels) == IF Len(rels) # 0 THEN total \div Len(rels) ELSE 0

\* medals[i] if i < len(medals) else "  "  (i counts from 0; the medals by name)
Medals == <<"gold", "silver", "bronze">>
Medal(i) == IF i < Len(Medals) THEN Medals[i + 1] ELSE "  "

TopRow(stat, i) ==
    [sec |-> "top", medal |-> Medal(i), version |-> stat.version.v,
     downloads |-> format_number(stat.downloads), date |-> Text(stat.date), idx |-> stat.idx]

----------------------------------------------------------------------------
\* One run of main()

VARIABLES
    pc,               \* where main() is
    fetched,          \* how the fetch ended: "none" before it, "ok", or the error
    releases,         \* the decoded response
    release_stats,    \* the per-release records, sorted by version after line 72
    total_downloads,  \* the grand total
    row,              \* the number of table rows printed
    top_releases,     \* the ranking of line 128
    stdout,           \* what was printed, one record per line or block
    stderr,           \* the diagnostics printed
    exit_code         \* the exit status, -1 while the process runs

vars == <<pc, fetched, releases, release_stats, total_downloads, row, top_releases,
          stdout, stderr, exit_code>>

Init ==
    /\ pc = "fetch"
    /\ fetched = "none"
    /\ releases = <<>>
    /\ release_stats = <<>>
    /\ total_downloads = 0
    /\ row = 0
    /\ top_releases = <<>>
    /\ stdout = <<>>
    /\ stderr = <<>>
    /\ exit_code = -1

\* The diagnostic printed without file=sys.stderr.
PrintErrorToStdout(streams, msg) == [streams EXCEPT !.stdout = Append(@, msg)]

\* print(msg, file=sys.stderr)
PrintError(streams, msg) == [streams EXCEPT !.stderr = Append(@, msg)]

\* An exception no handler catches: the interpreter prints the traceback to
\* standard error and the process ends with status 1.
Raise ==
    /\ pc' = "raised"
    /\ stderr' = Append(stderr, "Traceback")
    /\ exit_code' = 1

\* Lines 32-33 without an exception.
FetchOk ==
    /\ pc = "fetch"
    /\ \E rs \in ReleaseLists : releases' = rs
    /\ fetched' = "ok"
    /\ pc' = "loaded"
    /\ UNCHANGED <<release_stats, total_downloads, row, top_releases, stdout, stderr, exit_code>>

\* An except clause of lines 34-39: a diagnostic, then sys.exit(1).
ReportAndExit(error, msg) ==
    /\ fetched' = error
    /\ LET s == PrintError([stdout |-> stdout, stderr |-> stderr], msg)
       IN  stdout' = s.stdout /\ stderr' = s.stderr
    /\ exit_code' = 1
    /\ pc' = "exited"
    /\ UNCHANGED <<releases, release_stats, total_downloads, row, top_releases>>

\* Lines 34-36.
FetchURLError ==
    /\ pc = "fetch"
    /\ ReportAndExit("URLError", "Error: ")

\* Lines 37-39.
FetchJSONDecodeError ==
    /\ pc = "fetch"
    /\ ReportAndExit("JSONDecodeError", "Error parsing JSON: ")

\* An exception of lines 32-33 that is neither URLError nor JSONDecodeError:
\* a timeout while the body is read, a body that is not UTF-8.
FetchUncaught ==
    /\ pc = "fetch"
    /\ fetched' = "uncaught"
    /\ Raise
    /\ UNCHANGED <<releases, release_stats, total_downloads, row, top_releases, stdout>>

\* The emptiness test left out.
IsEmptyNever(rels) == FALSE

\* not releases
IsEmpty(rels) == Len(rels) = 0

\* Lines 41-47.
CheckEmpty ==
    /\ pc = "loaded"
    /\ IF IsEmpty(releases)
       THEN /\ stdout' = Append(stdout, [sec |-> "none", text |-> "No releases found"])
            /\ pc' = "done"
            /\ exit_code' = 0
       ELSE /\ pc' = "aggregate"
            /\ UNCHANGED <<stdout, exit_code>>
    /\ release_stats' = <<>>
    /\ total_downloads' = 0
    /\ UNCHANGED <<fetched, releases, row, top_releases, stderr>>

\* One iteration of the loop of lines 49-69.
Aggregate ==
    /\ pc = "aggregate"
    /\ Len(release_stats) < Len(releases)
    /\ LET i == Len(release_stats) + 1
           release == releases[i]
       IN  IF AggregateRaises(release)
           THEN Raise /\ UNCHANGED <<release_stats, total_downloads>>
           ELSE /\ release_stats' = Append(release_stats, ReleaseStat(release, i))
                /\ total_downloads' =
                     AddToTotal(total_downloads, ReleaseTotal(AssetsOf(release).v))
                /\ UNCHANGED <<pc, stderr, exit_code>>
    /\ UNCHANGED <<fetched, releases, row, top_releases, stdout>>

\* Line 72, reached when the loop has taken every release.
Sort ==
    /\ pc = "aggregate"
    /\ Len(release_stats) = Len(releases)
    /\ IF SortRaises(release_stats)
       THEN Raise /\ UNCHANGED release_stats
       ELSE /\ release_stats' = SortByVersion(release_stats)
            /\ pc' = "table"
            /\ UNCHANGED <<stderr, exit_code>>
    /\ UNCHANGED <<fetched, releases, total_downloads, row, top_releases, stdout>>

\* Lines 75-82.
PrintTableHeader ==
    /\ pc = "table"
    /\ stdout' = Append(stdout, [sec |-> "header"])
    /\ row' = 0
    /\ pc' = "rows"
    /\ UNCHANGED <<fetched, releases, release_stats, total_downloads, top_releases,
                   stderr, exit_code>>

\* One iteration of the loop of lines 85-94; the line is formatted before it
\* is printed, so a row that raises prints nothing.
PrintRow ==
    /\ pc = "rows"
    /\ row < Len(release_stats)
    /\ LET stat == release_stats[row + 1]
       IN  IF FormatRaises(stat.version) \/ FormatRaises(stat.date)
           THEN Raise /\ UNCHANGED <<stdout, row>>
           ELSE /\ stdout' = Append(stdout, TableRow(stat))
                /\ row' = row + 1
                /\ UNCHANGED <<pc, stderr, exit_code>>
    /\ UNCHANGED <<fetched, releases, release_stats, total_downloads, top_releases>>

\* Lines 96-99, reached when the loop has printed every row.
PrintFooter ==
    /\ pc = "rows"
    /\ row = Len(release_stats)
    /\ stdout' = Append(stdout, [sec |-> "total", downloads |-> format_number(total_downloads)])
    /\ pc' = "summary"
    /\ UNCHANGED <<fetched, releases, release_stats, total_downloads, row, top_releases,
                   stderr, exit_code>>

\* Lines 102-106.
PrintSummary ==
    /\ pc = "summary"
    /\ stdout' = Append(stdout,
                   [sec |-> "summary", releases |-> Len(releases),
                    downloads |-> format_number(total_downloads),
                    average |-> format_number(AveragePerRelease(total_downloads, releases))])
    /\ pc' = "latest"
    /\ UNCHANGED <<fetched, releases, release_stats, total_downloads, row, top_releases,
                   stderr, exit_code>>

\* Lines 109-125.
PrintLatest ==
    /\ pc = "latest"
    /\ IF release_stats # <<>>
       THEN LET latest == release_stats[1]
            IN  stdout' = Append(stdout,
                            [sec |-> "latest", version |-> Text(latest.version),
                             date |-> Text(latest.date),
                             downloads |-> format_number(latest.downloads),
                             assets_count |-> latest.assets_count,
                             platforms |-> PlatformStr(latest), idx |-> latest.idx])
       ELSE UNCHANGED stdout
    /\ pc' = "top"
    /\ UNCHANGED <<fetched, releases, release_stats, total_downloads, row, top_releases,
                   stderr, exit_code>>

\* Lines 128-136, and the return of main().
PrintTop ==
    /\ pc = "top"
    /\ LET top == TopReleases(release_stats)
           bad == {j \in 1..Len(top) : FormatRaises(top[j].version)}
           n == IF bad = {} THEN Len(top) ELSE (CHOOSE j \in bad : \A h \in bad : j <= h) - 1
       IN  /\ top_releases' = top
           /\ stdout' = stdout \o <<[sec |-> "topheader"]>>
                               \o [j \in 1..n |-> TopRow(top[j], j - 1)]
           /\ IF bad = {}
              THEN pc' = "done" /\ exit_code' = 0 /\ UNCHANGED stderr
              ELSE Raise
    /\ UNCHANGED <<fetched, releases, release_stats, total_downloads, row>>

Next ==
    \/ FetchOk
    \/ FetchURLError
    \/ FetchJSONDecodeError
    \/ FetchUncaught
    \/ CheckEmpty
    \/ Aggregate
    \/ Sort
    \/ PrintTableHeader
    \/ PrintRow
    \/ PrintFooter
    \/ PrintSummary
    \/ PrintLatest
    \/ PrintTop

Spec == Init /\ [][Next]_vars

----------------------------------------------------------------------------
\* Properties

\* The lines of one section, in the order printed.
Printed(sec) == SelectSeq(stdout, LAMBDA line : line.sec = sec)

\* The number a thousands-separated text stands for.
NumberOf(text) == ToInt(StrReplace(text, ",", ""))

\* The release a record of release_stats or a printed line was made from.
Origin(x) == releases[x.idx]

\* The aggregation loop has taken every release and main() has gone on.
Aggregated == pc \in {"table", "rows", "summary", "latest", "top", "done"}

\* Every download count of the response, release after release.
RECURSIVE AllCounts(_)
AllCounts(rels) ==
    IF rels = <<>> THEN <<>>
    ELSE LET assets == AssetsOf(Head(rels)).v
         IN  [k \in 1..Len(assets) |-> DownloadCount(assets[k]).v] \o AllCounts(Tail(rels))

\* C1: the grand total is the sum of the per-release totals and the sum of
\* every asset's download count, and the TOTAL row prints that number.
C1_GrandTotal ==
    /\ total_downloads = SumSeq([k \in 1..Len(release_stats) |-> release_stats[k].downloads])
    /\ Aggregated => total_downloads = SumSeq(AllCounts(releases))
    /\ \A k \in 1..Len(Printed("total")) :
          NumberOf(Printed("total")[k].downloads) = total_downloads

C1_Witness ==
    /\ Len(Printed("total")) = 1
    /\ total_downloads > 1000
    /\ Cardinality({k \in 1..Len(release_stats) : release_stats[k].downloads > 0}) >= 3

FetchFailed == fetched \in {"URLError", "JSONDecodeError", "uncaught"}

\* C2: once the fetch has failed, standard error holds a diagnostic, the exit
\* status is 1 and nothing was, or will be, written to standard output.
C2_FatalFetch ==
    FetchFailed =>
        /\ stdout = <<>>
        /\ stderr # <<>>
        /\ exit_code = 1
        /\ pc \in {"exited", "raised"}
        /\ ~ENABLED Next

C2_Witness == fetched = "JSONDecodeError" /\ exit_code = 1 /\ stderr = <<"Error parsing JSON: ">>

\* C3, as claimed: after a successful fetch nothing raises, whatever the
\* release records hold.
C3_NeverRaises == fetched = "ok" => pc # "raised"

NoReleasesLine == [sec |-> "none", text |-> "No releases found"]

\* C4: an empty response prints the no-releases line and nothing else, and
\* the run ends with status 0.
C4_NoReleases ==
    (fetched = "ok" /\ releases = <<>>) =>
        /\ stderr = <<>>
        /\ \/ pc = "loaded" /\ stdout = <<>> /\ exit_code = -1
           \/ pc = "done" /\ stdout = <<NoReleasesLine>> /\ exit_code = 0 /\ ~ENABLED Next

C4_Witness == fetched = "ok" /\ releases = <<>> /\ pc = "done" /\ stdout = <<NoReleasesLine>>

\* The position in the table (release_stats after line 72) of a printed line.
TablePos(line) == CHOOSE k \in 1..Len(release_stats) : release_stats[k].idx = line.idx

\* Line a ranks before line b: more downloads, or as many and earlier in the table.
RanksBefore(a, b) ==
    \/ NumberOf(a.downloads) > NumberOf(b.downloads)
    \/ NumberOf(a.downloads) = NumberOf(b.downloads) /\ TablePos(a) < TablePos(b)

\* C5: the top-3 section holds min(3, number of releases) lines, the releases
\* with the most downloads in non-increasing order; releases with as many
\* downloads keep the order of the table, among the lines and against the
\* releases left out.
C5_TopThree ==
    (pc = "done" /\ releases # <<>>) =>
        LET top == Printed("top")
            rows == Printed("row")
            n == Len(releases)
        IN  /\ Len(top) = IF n < 3 THEN n ELSE 3
            /\ \A a \in 1..Len(top) :
                  /\ top[a].idx = top_releases[a].idx
                  /\ \E k \in 1..Len(rows) :
                        /\ rows[k].idx = top[a].idx
                        /\ rows[k].downloads = top[a].downloads
                        /\ rows[k].version = top[a].version
                  /\ NumberOf(top[a].downloads) = SumSeq(AllCounts(<<Origin(top[a])>>))
            /\ \A a, b \in 1..Len(top) : a < b => RanksBefore(top[a], top[b])
            /\ \A k \in 1..Len(rows) :
                  (\A a \in 1..Len(top) : top[a].idx # rows[k].idx) =>
                      \A a \in 1..Len(top) : RanksBefore(top[a], rows[k])

\* Four releases or more, two ranked lines with as many downloads, and a
\* release left out with as many downloads as the last line.
C5_Witness ==
    /\ pc = "done"
    /\ Len(releases) >= 4
    /\ LET top == Printed("top")
           rows == Printed("row")
       IN  /\ Len(top) = 3
           /\ \E a, b \in 1..3 : a < b /\ top[a].downloads = top[b].downloads
                                       /\ top[a].version # top[b].version
           /\ \E k \in 1..Len(rows) :
                 /\ \A a \in 1..3 : top[a].idx # rows[k].idx
                 /\ rows[k].downloads = top[3].downloads

\* b <= a in lexicographic order by code point: b is a prefix of a, or at the
\* first place where they differ b holds the smaller character.
LexLeq(b, a) ==
    \/ Len(b) <= Len(a) /\ SubSeq(a, 1, Len(b)) = b
    \/ \E k \in 1..Len(b) :
          /\ k <= Len(a)
          /\ SubSeq(a, 1, k - 1) = SubSeq(b, 1, k - 1)
          /\ Ord(Ch(b, k)) < Ord(Ch(a, k))

\* The tag a release is listed under.
TagOf(release) == Get(release, "tag_name", JStr("N/A"))

\* C6: the latest-release section shows the first row of the table, and no
\* release of the response has a tag lexicographically greater than its tag.
C6_Latest ==
    \A k \in 1..Len(Printed("latest")) :
        LET latest == Printed("latest")[k]
            first == Printed("row")[1]
        IN  /\ latest.idx = first.idx
            /\ latest.version = first.version
            /\ latest.date = first.date
            /\ latest.downloads = first.downloads
            /\ latest.assets_count = first.assets_count
            /\ latest.platforms = first.platforms
            /\ latest.version = TagOf(Origin(latest)).v
            /\ \A r \in 1..Len(releases) : LexLeq(TagOf(releases[r]).v, latest.version)

\* The latest release is "v2.0" although "v10.0" is in the response, and it
\* was not the first release of the response.
C6_Witness ==
    /\ Len(Printed("latest")) = 1
    /\ Printed("latest")[1].version = "v2.0"
    /\ Printed("latest")[1].idx > 1
    /\ \E r \in 1..Len(releases) : TagOf(releases[r]) = JStr("v10.0")

\* name holds marker when case is ignored: at some place each character of
\* name is the marker's character or its capital.
ContainsIgnoringCase(marker, name) ==
    \E k \in 1..(Len(name) - Len(marker) + 1) :
        \A j \in 1..Len(marker) :
            \/ Ch(name, k + j - 1) = Ch(marker, j)
            \/ Ch(name, k + j - 1) = Ch(Upper, IndexIn(LowerCase, Ch(marker, j)))

HasAssetNamed(release, marker) ==
    \E k \in 1..Len(AssetsOf(release).v) :
        LET asset == AssetsOf(release).v[k]
        IN  /\ "name" \in DOMAIN asset
            /\ asset.name.t = "str"
            /\ ContainsIgnoringCase(marker, asset.name.v)

\* C7: a release's windows flag is set exactly when one of its asset names
\* holds "win", its macos flag exactly when one holds "macos", case ignored;
\* the platform column names the flags set, and is "N/A" when none is.
\* Records are looked at while the loop appends them, rows while the table is
\* printed: neither changes afterwards.
C7_Platforms ==
    /\ pc = "aggregate" =>
          \A k \in 1..Len(release_stats) :
              LET release == Origin(release_stats[k])
              IN  /\ release_stats[k].win <=> HasAssetNamed(release, "win")
                  /\ release_stats[k].mac <=> HasAssetNamed(release, "macos")
    /\ pc = "rows" =>
          \A k \in 1..Len(Printed("row")) :
              LET line == Printed("row")[k]
                  win == HasAssetNamed(Origin(line), "win")
                  mac == HasAssetNamed(Origin(line), "macos")
              IN  line.platforms = IF win /\ mac THEN "Windows, macOS"
                                   ELSE IF win THEN "Windows"
                                   ELSE IF mac THEN "macOS"
                                   ELSE "N/A"

\* A row for "App-WIN64.zip" and "app-macOS.zip", and an "N/A" row of a
\* release that has an asset.
C7_Witness ==
    /\ \E k \in 1..Len(Printed("row")) :
          /\ Printed("row")[k].platforms = "Windows, macOS"
          /\ \E a \in 1..Len(AssetsOf(Origin(Printed("row")[k])).v) :
                AssetsOf(Origin(Printed("row")[k])).v[a].name = JStr("App-WIN64.zip")
    /\ \E k \in 1..Len(Printed("row")) :
          /\ Printed("row")[k].platforms = "N/A"
          /\ Printed("row")[k].assets_count > 0

\* The published value a release is listed under.
PublishedOf(release) == Get(release, "published_at", JStr("N/A"))

Numeral(s) == s # "" /\ \A k \in 1..Len(s) : Ch(s, k) \in {Ch(DigitChars, d) : d \in 1..10}

MonthLengths == <<31, 28, 31, 30, 31, 30, 31, 31, 30, 31, 30, 31>>

\* YYYY-MM-DD in digits and dashes.
CalendarShape(s) ==
    /\ Len(s) >= 10
    /\ Numeral(SubSeq(s, 1, 4)) /\ Numeral(SubSeq(s, 6, 7)) /\ Numeral(SubSeq(s, 9, 10))
    /\ Ch(s, 5) = "-" /\ Ch(s, 8) = "-"

\* The ISO-8601 shapes YYYY-MM-DD and YYYY-MM-DDTHH:MM:SS, the latter with
\* nothing, "Z" or a +HH:MM / -HH:MM offset after it.
IsoShape(s) ==
    /\ CalendarShape(s)
    /\ \/ Len(s) = 10
       \/ /\ Len(s) \in {19, 20, 25}
          /\ Ch(s, 11) = "T" /\ Ch(s, 14) = ":" /\ Ch(s, 17) = ":"
          /\ Numeral(SubSeq(s, 12, 13)) /\ Numeral(SubSeq(s, 15, 16))
          /\ Numeral(SubSeq(s, 18, 19))
          /\ Len(s) = 20 => Ch(s, 20) = "Z"
          /\ Len(s) = 25 => /\ Ch(s, 20) \in {"+", "-"} /\ Ch(s, 23) = ":"
                            /\ Numeral(SubSeq(s, 21, 22)) /\ Numeral(SubSeq(s, 24, 25))

\* The fields of a text of IsoShape name a moment that exists.
IsoInRange(s) ==
    LET y == ToInt(SubSeq(s, 1, 4))
        m == ToInt(SubSeq(s, 6, 7))
        d == ToInt(SubSeq(s, 9, 10))
        leapDay == IF m = 2 /\ y % 4 = 0 /\ (y % 100 # 0 \/ y % 400 = 0) THEN 1 ELSE 0
    IN  /\ y >= 1 /\ m >= 1 /\ m <= 12
        /\ d >= 1 /\ d <= MonthLengths[m] + leapDay
        /\ Len(s) > 10 => /\ ToInt(SubSeq(s, 12, 13)) <= 23
                          /\ ToInt(SubSeq(s, 15, 16)) <= 59
                          /\ ToInt(SubSeq(s, 18, 19)) <= 59
        /\ Len(s) = 25 => ToInt(SubSeq(s, 21, 22)) <= 23 /\ ToInt(SubSeq(s, 24, 25)) <= 59

\* A timestamp in ISO-8601.
IsoTimestamp(s) == IsoShape(s) /\ IsoInRange(s)

\* A text no reading takes for a timestamp: it does not start with a date,
\* or it has the ISO shape and a field out of range.
NoTimestamp(s) == ~CalendarShape(s) \/ (IsoShape(s) /\ ~IsoInRange(s))

\* "YYYY-MM-DD HH:MM" cut out of an ISO-8601 timestamp.
DateColumn(s) ==
    SubSeq(s, 1, 10) \o " " \o (IF Len(s) = 10 THEN "00:00" ELSE SubSeq(s, 12, 16))

\* What the claim has the date column show for a published text.
ShownFor(raw, shown) ==
    /\ IsoTimestamp(raw) => shown = DateColumn(raw)
    /\ NoTimestamp(raw) => shown = raw

\* C8, as claimed: formatting a date never ends the run; whatever format_date
\* cannot parse comes back as it is and is what the date column shows.  So a
\* row whose version can be printed is printed.
C8_DateNeverFails ==
    (pc = "raised" /\ Printed("header") # <<>>) => TagOf(Origin(release_stats[row + 1])) = JNull

\* C8 for published values that are texts: a text that is no timestamp comes
\* back from format_date as it is and is what the date column shows; an
\* ISO-8601 timestamp is shown as "YYYY-MM-DD HH:MM"; no diagnostic is
\* written, and a row is never the place where the run ends unless the
\* release's tag or published value is None.
\* Records are looked at while the loop appends them, rows while the table is
\* printed: neither changes afterwards.
C8_TextFallback ==
    /\ pc = "aggregate" =>
          \A k \in 1..Len(release_stats) :
              LET raw == PublishedOf(Origin(release_stats[k]))
              IN  raw.t = "str" => /\ release_stats[k].date.t = "str"
                                   /\ ShownFor(raw.v, release_stats[k].date.v)
    /\ pc = "rows" =>
          \A k \in 1..Len(Printed("row")) :
              LET raw == PublishedOf(Origin(Printed("row")[k]))
              IN  raw.t = "str" /\ ShownFor(raw.v, Printed("row")[k].date)
    /\ (fetched = "ok" /\ pc # "raised") => stderr = <<>>
    /\ (pc = "raised" /\ Printed("header") # <<>>) =>
          LET release == Origin(release_stats[row + 1])
          IN  PublishedOf(release) = JNull \/ TagOf(release) = JNull

\* The report is complete, with one date column showing "not-a-date", one
\* showing "N/A" for a release without the key, and one a formatted timestamp.
C8_TextWitness ==
    /\ pc = "done"
    /\ \E a, b, c \in 1..Len(Printed("row")) :
          /\ Printed("row")[a].date = "not-a-date"
          /\ Printed("row")[b].date = "2024-02-29 10:20"
          /\ Printed("row")[c].date = "N/A"

\* C9: the average of the summary is the grand total divided by the number
\* of releases, rounded down; for no releases the expression gives 0, and a
\* run with no releases neither raises nor prints a summary.
C9_Average ==
    /\ \A k \in 1..Len(Printed("summary")) :
          LET line == Printed("summary")[k]
              n == Len(releases)
              a == NumberOf(line.average)
          IN  /\ n > 0
              /\ NumberOf(line.downloads) = total_downloads
              /\ a * n <= total_downloads
              /\ total_downloads < (a + 1) * n
    /\ \A total \in 0..3 : AveragePerRelease(total, <<>>) = 0
    /\ (fetched = "ok" /\ releases = <<>>) => (pc # "raised" /\ Printed("summary") = <<>>)

\* A summary whose total is not a multiple of the number of releases.
C9_Witness ==
    /\ Len(Printed("summary")) = 1
    /\ total_downloads % Len(releases) # 0
    /\ total_downloads > Len(releases)

\* C10: the table has one row per release of the response, none twice, each
\* under its release's tag, in non-increasing lexicographic order of version;
\* the summary's number of releases is the number of rows.
C10_TablePermutation ==
    LET rows == Printed("row")
    IN  /\ \A a, b \in 1..Len(rows) : a # b => rows[a].idx # rows[b].idx
        /\ \A k \in 1..Len(rows) :
              /\ rows[k].idx \in 1..Len(releases)
              /\ rows[k].version = TagOf(Origin(rows[k])).v
              /\ rows[k].assets_count = Len(AssetsOf(Origin(rows[k])).v)
              /\ NumberOf(rows[k].downloads) = SumSeq(AllCounts(<<Origin(rows[k])>>))
        /\ \A k \in 1..(Len(rows) - 1) : LexLeq(rows[k + 1].version, rows[k].version)
        /\ Printed("total") # <<>> =>
              /\ Len(rows) = Len(releases)
              /\ {rows[k].idx : k \in 1..Len(rows)} = 1..Len(releases)
        /\ \A k \in 1..Len(Printed("summary")) : Printed("summary")[k].releases = Len(rows)

\* A summary after a table of three rows or more, two of them under the same
\* tag, the response not being in table order.
C10_Witness ==
    LET rows == Printed("row")
    IN  /\ Len(Printed("summary")) = 1
        /\ Len(rows) >= 3
        /\ \E a, b \in 1..Len(rows) : a # b /\ rows[a].version = rows[b].version
        /\ \E k \in 1..Len(rows) : rows[k].idx # k

====
